---- MODULE Spec2Model ----
(***************************************************************************)
(* The webhook pipeline of the GitHub/Telegram bot (src/webhook_handler.py):*)
(* signature verification, JSON parsing, event classification/formatting   *)
(* and the hand-off to the notifier.                                       *)
(*                                                                         *)
(* Representation.                                                         *)
(*  - A Python str is a sequence of tokens (TLA+ strings).  A token is an  *)
(*    atomic piece of text; the token alphabet is chosen so that every     *)
(*    string has one tokenisation and so that the substrings the code      *)
(*    searches for ("sha256=", "refs/heads/") occur only as whole tokens.  *)
(*    Single-character tokens are used where the code slices characters.   *)
(*  - A JSON value is a tagged record: [t |-> "obj", v |-> function],      *)
(*    [t |-> "list", v |-> sequence], [t |-> "str", v |-> tokens],         *)
(*    [t |-> "int", v |-> integer], [t |-> "null"].                        *)
(*  - The emoji of the message templates are written as ASCII names in     *)
(*    brackets, e.g. "[star]"; the backquote is written "[tick]".          *)
(*  - A call that may raise returns [exc |-> "none", val |-> v] or         *)
(*    [exc |-> <exception class>].                                         *)
(***************************************************************************)
EXTENDS Integers, Sequences, FiniteSets, TLC

VARIABLES
    server,     \* run_server: whether the Flask server runs, and what it logged on starting
    config,     \* Config: webhook_secret, bot_admin_id (read-only after startup)
    threads,    \* the server threads that handle requests (threaded=True)
    pc,         \* per thread: position inside handle_webhook
    req,        \* per thread: the request being handled (payload, signature, event_type)
    sigok,      \* per thread: outcome of _verify_signature for this request
    parsed,     \* per thread: the result of json.loads (data), or NoData
    classified, \* per thread: whether _process_event ran for this request
    message,    \* per thread: the value returned by _process_event
    sent,       \* per thread: the messages passed to _send_notification
    resp,       \* per thread: the response returned (status, body), or NoResp
    log,        \* per thread: the log records emitted while handling the request
    esc,        \* a call of utils.escape_markdown: its argument and its result
    poll,       \* TelegramBot.run_polling: self.running, last_update_id, the batch, ...
    cmd         \* a call of TelegramBot.handle_message: the text and what was invoked

\* the state of the webhook handler, and the state it never touches
hookvars == <<server, config, threads, pc, req, sigok, parsed, classified, message, sent, resp, log>>
aside    == <<esc, poll, cmd>>
vars     == <<hookvars, aside>>

(***************************************************************************)
(* Bounds of the model.                                                    *)
(***************************************************************************)
MaxCommits == 5
MaxUpdates == 2     \* updates that reach the bot
MaxAttempts == 2    \* the count of calls of handle_message per update stops here      \* longest commit list of a push payload

(***************************************************************************)
(* Python values.                                                          *)
(***************************************************************************)
JStr(s)  == [t |-> "str", v |-> s]
JInt(n)  == [t |-> "int", v |-> n]
JNull    == [t |-> "null"]
JList(l) == [t |-> "list", v |-> l]
JObj(f)  == [t |-> "obj", v |-> f]
EmptyObj == JObj([k \in {} |-> JNull])

Ret(v)   == [exc |-> "none", val |-> v]
Raise(e) == [exc |-> e]

IsDict(v) == v.t = "obj"
IsStr(v)  == v.t = "str"
IsList(v) == v.t = "list"

\* dict.get(key, default); the caller guards IsDict(d) (d.get raises otherwise)
DictGet(d, k, default) == IF k \in DOMAIN d.v THEN d.v[k] ELSE default

\* Python truth value of a JSON value ('if not commits', 'if message')
Truthy(v) ==
    CASE v.t = "str"  -> Len(v.v) > 0
      [] v.t = "list" -> Len(v.v) > 0
      [] v.t = "obj"  -> DOMAIN v.v # {}
      [] v.t = "int"  -> v.v # 0
      [] OTHER        -> FALSE

\* str(value) as an f-string placeholder renders it
Format(v) ==
    CASE v.t = "str"  -> v.v
      [] v.t = "int"  -> <<ToString(v.v)>>
      [] v.t = "null" -> <<"None">>
      [] OTHER        -> <<ToString(v)>>

(***************************************************************************)
(* utils.escape_markdown.  The characters of its class are single-character *)
(* tokens; no other token of a text contains one of them.                  *)
(***************************************************************************)
EscapeChars ==
    {"_", "*", "[", "]", "(", ")", "~", "[tick]", ">", "#", "+", "-", "=", "|",
     "{", "}", ".", "!"}

\* mutant: the characters are dropped instead of being prefixed
EscapeChar_Dropped(char) == IF char \in EscapeChars THEN <<>> ELSE <<char>>

\* one turn of the loop, lines 29-33: what is appended to 'escaped' for char
EscapeChar(char) == IF char \in EscapeChars THEN <<"\\", char>> ELSE <<char>>

RECURSIVE EscapeMarkdown(_)
EscapeMarkdown(text) ==
    IF Len(text) = 0 THEN <<>>       \* 'if not text: return ""', and the loop's end
    ELSE EscapeChar(Head(text)) \o EscapeMarkdown(Tail(text))

(***************************************************************************)
(* Signature verification (WebhookHandler._verify_signature).              *)
(***************************************************************************)
SigPrefix == "sha256="
NonAscii  == "<U+00E9>"     \* a token standing for one non-ASCII character

\* hmac.new(key, payload, sha256).hexdigest(): one token of hex digits.  HMAC is
\* modelled as collision-free: distinct (key, payload) pairs give distinct tokens.
HexDigest(key, payload) == "hmac-sha256(" \o ToString(<<key, payload>>) \o ")"

\* str.replace(old, '') for a searched text that is a whole token
RemoveAll(s, old) == SelectSeq(s, LAMBDA tok : tok # old)

IsAscii(s) == \A i \in 1..Len(s) : s[i] # NonAscii

\* hmac.compare_digest(a, b) on two str: TypeError unless both are ASCII
CompareDigest(a, b) ==
    IF IsAscii(a) /\ IsAscii(b) THEN Ret(a = b) ELSE Raise("TypeError")

\* mutant: the header is compared as received, its "sha256=" prefix kept
VerifySignature_NoStrip(secret, payload, signature) ==
    IF Len(secret) = 0 THEN Ret(TRUE)
    ELSE IF Len(signature) = 0 THEN Ret(FALSE)
    ELSE CompareDigest(<<HexDigest(secret, payload)>>, signature)

\* mutant: the missing-signature check comes before the missing-secret check
VerifySignature_HeaderFirst(secret, payload, signature) ==
    IF Len(signature) = 0 THEN Ret(FALSE)
    ELSE IF Len(secret) = 0 THEN Ret(TRUE)
    ELSE CompareDigest(<<HexDigest(secret, payload)>>, RemoveAll(signature, SigPrefix))

\* mutant: a request without signature header is let through
VerifySignature_EmptyAccepted(secret, payload, signature) ==
    IF Len(secret) = 0 \/ Len(signature) = 0 THEN Ret(TRUE)
    ELSE CompareDigest(<<HexDigest(secret, payload)>>, RemoveAll(signature, SigPrefix))

VerifySignature(secret, payload, signature) ==
    IF Len(secret) = 0 THEN Ret(TRUE)
    ELSE IF Len(signature) = 0 THEN Ret(FALSE)
    ELSE LET expected_signature == <<HexDigest(secret, payload)>>
             signature_header   == RemoveAll(signature, SigPrefix)
         IN  CompareDigest(expected_signature, signature_header)

\* what _verify_signature logs before it returns
VerifyLog(secret, signature) ==
    IF Len(secret) = 0
        THEN <<"WARNING No webhook secret configured, skipping signature verification">>
    ELSE IF Len(signature) = 0
        THEN <<"ERROR No signature provided in webhook request">>
    ELSE <<>>

(***************************************************************************)
(* Decoding and parsing the body (handle_webhook, lines 83-87).  The raw   *)
(* bytes of a body are represented by what decoding them gives:            *)
(*   [enc |-> "badutf8"]   bytes that are not valid UTF-8                  *)
(*   [enc |-> "badjson"]   UTF-8 text that is not JSON                     *)
(*   [enc |-> "deep"]      JSON nested deeper than the recursion limit     *)
(*   [enc |-> "json", data |-> v]   the JSON text of value v               *)
(***************************************************************************)
\* payload.decode('utf-8')
Decode(payload) ==
    IF payload.enc = "badutf8" THEN Raise("UnicodeDecodeError") ELSE Ret(payload)

\* json.loads(text)
Loads(text) ==
    CASE text.enc = "badjson" -> Raise("JSONDecodeError")
      [] text.enc = "deep"    -> Raise("RecursionError")
      [] OTHER                -> Ret(text.data)

\* json.loads(payload.decode('utf-8'))
ParsePayload(payload) ==
    LET text == Decode(payload)
    IN  IF text.exc # "none" THEN text ELSE Loads(text.val)

(***************************************************************************)
(* Event processors (_process_*_event).  Each returns                      *)
(*   [exc |-> the exception that leaves it ("none": it returns),           *)
(*    msg |-> the str returned, log |-> the records it logged];            *)
(* an exception raised inside is caught by the processor's own             *)
(* try/except, logged as an error, and "" is returned.                     *)
(***************************************************************************)
Returned(m)  == [exc |-> "none", msg |-> m, log |-> <<>>]

\* mutant: the except clause logs the error and raises it again
Caught_Reraise(what) ==
    [exc |-> "Exception", msg |-> <<>>,
     log |-> <<"ERROR Error processing " \o what \o " event">>]

Caught(what) ==
    [exc |-> "none", msg |-> <<>>, log |-> <<"ERROR Error processing " \o what \o " event">>]

Min(a, b) == IF a < b THEN a ELSE b

\* s[:n]
Prefix(s, n) == SubSeq(s, 1, Min(n, Len(s)))

\* 'action in [...]' / 'action == ...' for a JSON value and str literals
ActionIn(action, literals) == IsStr(action) /\ action.v \in literals

\* str.title() on the action words the processors accept
TitleTok(tok) ==
    CASE tok = "opened"   -> "Opened"
      [] tok = "closed"   -> "Closed"
      [] tok = "merged"   -> "Merged"
      [] tok = "reopened" -> "Reopened"
      [] OTHER            -> tok
Title(s) == [i \in 1..Len(s) |-> TitleTok(s[i])]

\* mutant: a missing name has no default and is rendered as None
Unknown_None == JNull

Unknown == JStr(<<"Unknown">>)
NoText  == JStr(<<>>)

\* ---- push ---------------------------------------------------------------
RefPrefix == "refs/heads/"

\* ref.replace('refs/heads/', '') if ref.startswith('refs/heads/') else ref
Branch(ref) ==
    IF Len(ref) > 0 /\ ref[1] = RefPrefix THEN RemoveAll(ref, RefPrefix) ELSE ref

\* commit.get('id', '')[:7]: str and list can be sliced, the rest raises
Sliceable(v) == v.t \in {"str", "list"}
Slice7(v) == [t |-> v.t, v |-> Prefix(v.v, 7)]

CommitRaises(commit) ==
    \/ ~IsDict(commit)
    \/ ~IsDict(DictGet(commit, "author", EmptyObj))
    \/ ~Sliceable(DictGet(commit, "id", NoText))

CommitEntry(commit) ==
    LET commit_message == DictGet(commit, "message", JStr(<<"No message">>))
        author_name    == DictGet(DictGet(commit, "author", EmptyObj), "name", Unknown)
        commit_id      == Slice7(DictGet(commit, "id", NoText))
    IN  <<"[diamond] **">> \o Format(commit_message) \o <<"**\n">>
        \o <<"[bust] ">> \o Format(author_name) \o <<" [bullet] [tick]">>
        \o Format(commit_id) \o <<"[tick]\n\n">>

RECURSIVE CommitEntries(_)
CommitEntries(cs) ==
    IF Len(cs) = 0 THEN <<>> ELSE CommitEntry(Head(cs)) \o CommitEntries(Tail(cs))

\* len(commits) and the loop over commits[:3], for a truthy 'commits'
CommitsRaise(commits) ==
    CASE commits.t = "list" ->
            \E i \in 1..Min(3, Len(commits.v)) : CommitRaises(commits.v[i])
      [] OTHER -> TRUE    \* int: len() fails; dict: slicing fails; str: a character has no .get

PushRaises(data) ==
    \/ ~IsDict(data)
    \/ LET repository == DictGet(data, "repository", EmptyObj)
           pusher     == DictGet(data, "pusher", EmptyObj)
           commits    == DictGet(data, "commits", JList(<<>>))
           ref        == DictGet(data, "ref", NoText)
       IN  \/ ~IsDict(repository)
           \/ ~IsDict(pusher)
           \/ ~IsStr(ref)
           \/ Truthy(commits) /\ CommitsRaise(commits)

\* mutant: the loop shows four commits instead of three
PushMessage_CapFour(data) ==
    LET repository   == DictGet(data, "repository", EmptyObj)
        pusher       == DictGet(data, "pusher", EmptyObj)
        commits      == DictGet(data, "commits", JList(<<>>)).v
        ref          == DictGet(data, "ref", NoText).v
        commit_count == Len(commits)
        commit_word  == IF commit_count = 1 THEN <<"commit">> ELSE <<"commits">>
    IN  <<"[memo] **New ">> \o commit_word \o <<" to ">>
        \o Format(DictGet(repository, "full_name", Unknown)) \o <<"**\n\n">>
        \o <<"[herb] Branch: [tick]">> \o Branch(ref) \o <<"[tick]\n">>
        \o <<"[bust] Pusher: ">> \o Format(DictGet(pusher, "name", Unknown)) \o <<"\n">>
        \o <<"[chart] ", ToString(commit_count), " ">> \o commit_word \o <<"\n\n">>
        \o CommitEntries(Prefix(commits, 4))
        \o (IF Len(commits) > 3
              THEN <<"... and ", ToString(Len(commits) - 3), " more commits\n\n">>
              ELSE <<>>)
        \o <<"[link] [View Repository](">>
        \o Format(DictGet(repository, "html_url", NoText)) \o <<")">>

PushMessage(data) ==
    LET repository   == DictGet(data, "repository", EmptyObj)
        pusher       == DictGet(data, "pusher", EmptyObj)
        commits      == DictGet(data, "commits", JList(<<>>)).v
        ref          == DictGet(data, "ref", NoText).v
        repo_name    == DictGet(repository, "full_name", Unknown)
        pusher_name  == DictGet(pusher, "name", Unknown)
        branch       == Branch(ref)
        commit_count == Len(commits)
        commit_word  == IF commit_count = 1 THEN <<"commit">> ELSE <<"commits">>
        repo_url     == DictGet(repository, "html_url", NoText)
    IN  <<"[memo] **New ">> \o commit_word \o <<" to ">> \o Format(repo_name) \o <<"**\n\n">>
        \o <<"[herb] Branch: [tick]">> \o branch \o <<"[tick]\n">>
        \o <<"[bust] Pusher: ">> \o Format(pusher_name) \o <<"\n">>
        \o <<"[chart] ", ToString(commit_count), " ">> \o commit_word \o <<"\n\n">>
        \o CommitEntries(Prefix(commits, 3))
        \o (IF Len(commits) > 3
              THEN <<"... and ", ToString(Len(commits) - 3), " more commits\n\n">>
              ELSE <<>>)
        \o <<"[link] [View Repository](">> \o Format(repo_url) \o <<")">>

\* mutant: the test for an empty commit list is left out
ProcessPushEvent_NoEmptyTest(data) ==
    IF PushRaises(data) THEN Caught("push") ELSE Returned(PushMessage(data))

ProcessPushEvent(data) ==
    IF PushRaises(data) THEN Caught("push")
    ELSE IF ~Truthy(DictGet(data, "commits", JList(<<>>))) THEN Returned(<<>>)
    ELSE Returned(PushMessage(data))

\* ---- pull_request ------------------------------------------------------
\* mutant: one more action is let through
PullRequestActions_WithLabeled == {<<"opened">>, <<"closed">>, <<"merged">>, <<"labeled">>}

PullRequestActions == {<<"opened">>, <<"closed">>, <<"merged">>}

PullRequestEmoji(action) ==
    CASE action = <<"opened">> -> "[green] "
      [] action = <<"closed">> -> "[red] "
      [] action = <<"merged">> -> "[purple] "
      [] OTHER                 -> "[clipboard] "

PullRequestRaises(data) ==
    \/ ~IsDict(data)
    \/ /\ ActionIn(DictGet(data, "action", NoText), PullRequestActions)
       /\ LET pull_request == DictGet(data, "pull_request", EmptyObj)
              repository   == DictGet(data, "repository", EmptyObj)
          IN  \/ ~IsDict(repository)
              \/ ~IsDict(pull_request)
              \/ ~IsDict(DictGet(pull_request, "user", EmptyObj))

PullRequestMessage(data) ==
    LET action       == DictGet(data, "action", NoText).v
        pull_request == DictGet(data, "pull_request", EmptyObj)
        repository   == DictGet(data, "repository", EmptyObj)
        repo_name    == DictGet(repository, "full_name", Unknown)
        pr_title     == DictGet(pull_request, "title", JStr(<<"No title">>))
        pr_number    == DictGet(pull_request, "number", JInt(0))
        pr_user      == DictGet(DictGet(pull_request, "user", EmptyObj), "login", Unknown)
        pr_url       == DictGet(pull_request, "html_url", NoText)
    IN  <<PullRequestEmoji(action), "**Pull Request ">> \o Title(action) \o <<"**\n\n">>
        \o <<"[package] Repository: ">> \o Format(repo_name) \o <<"\n">>
        \o <<"[wrench] PR #">> \o Format(pr_number) \o <<": ">> \o Format(pr_title) \o <<"\n">>
        \o <<"[bust] Author: ">> \o Format(pr_user) \o <<"\n\n">>
        \o <<"[link] [View Pull Request](">> \o Format(pr_url) \o <<")">>

ProcessPullRequestEvent(data) ==
    IF PullRequestRaises(data) THEN Caught("pull request")
    ELSE IF ~ActionIn(DictGet(data, "action", NoText), PullRequestActions) THEN Returned(<<>>)
    ELSE Returned(PullRequestMessage(data))

\* ---- issues ------------------------------------------------------------
IssueActions == {<<"opened">>, <<"closed">>, <<"reopened">>}

IssueEmoji(action) ==
    CASE action = <<"opened">>   -> "[green] "
      [] action = <<"closed">>   -> "[red] "
      [] action = <<"reopened">> -> "[yellow] "
      [] OTHER                   -> "[bug] "

IssuesRaises(data) ==
    \/ ~IsDict(data)
    \/ /\ ActionIn(DictGet(data, "action", NoText), IssueActions)
       /\ LET issue      == DictGet(data, "issue", EmptyObj)
              repository == DictGet(data, "repository", EmptyObj)
          IN  \/ ~IsDict(repository)
              \/ ~IsDict(issue)
              \/ ~IsDict(DictGet(issue, "user", EmptyObj))

IssuesMessage(data) ==
    LET action       == DictGet(data, "action", NoText).v
        issue        == DictGet(data, "issue", EmptyObj)
        repository   == DictGet(data, "repository", EmptyObj)
        repo_name    == DictGet(repository, "full_name", Unknown)
        issue_title  == DictGet(issue, "title", JStr(<<"No title">>))
        issue_number == DictGet(issue, "number", JInt(0))
        issue_user   == DictGet(DictGet(issue, "user", EmptyObj), "login", Unknown)
        issue_url    == DictGet(issue, "html_url", NoText)
    IN  <<IssueEmoji(action), "**Issue ">> \o Title(action) \o <<"**\n\n">>
        \o <<"[package] Repository: ">> \o Format(repo_name) \o <<"\n">>
        \o <<"[bug] Issue #">> \o Format(issue_number) \o <<": ">> \o Format(issue_title) \o <<"\n">>
        \o <<"[bust] Author: ">> \o Format(issue_user) \o <<"\n\n">>
        \o <<"[link] [View Issue](">> \o Format(issue_url) \o <<")">>

ProcessIssuesEvent(data) ==
    IF IssuesRaises(data) THEN Caught("issues")
    ELSE IF ~ActionIn(DictGet(data, "action", NoText), IssueActions) THEN Returned(<<>>)
    ELSE Returned(IssuesMessage(data))

\* ---- star --------------------------------------------------------------
StarRaises(data) ==
    \/ ~IsDict(data)
    \/ /\ ActionIn(DictGet(data, "action", NoText), {<<"created">>})
       /\ \/ ~IsDict(DictGet(data, "repository", EmptyObj))
          \/ ~IsDict(DictGet(data, "sender", EmptyObj))

StarMessage(data) ==
    LET repository == DictGet(data, "repository", EmptyObj)
        sender     == DictGet(data, "sender", EmptyObj)
        repo_name  == DictGet(repository, "full_name", Unknown)
        star_count == DictGet(repository, "stargazers_count", JInt(0))
        user_name  == DictGet(sender, "login", Unknown)
        repo_url   == DictGet(repository, "html_url", NoText)
    IN  <<"[star] **New Star!**\n\n">>
        \o <<"[package] Repository: ">> \o Format(repo_name) \o <<"\n">>
        \o <<"[bust] Starred by: ">> \o Format(user_name) \o <<"\n">>
        \o <<"[chart] Total stars: ">> \o Format(star_count) \o <<"\n\n">>
        \o <<"[link] [View Repository](">> \o Format(repo_url) \o <<")">>

ProcessStarEvent(data) ==
    IF StarRaises(data) THEN Caught("star")
    ELSE IF ~ActionIn(DictGet(data, "action", NoText), {<<"created">>}) THEN Returned(<<>>)
    ELSE Returned(StarMessage(data))

\* ---- fork --------------------------------------------------------------
ForkRaises(data) ==
    \/ ~IsDict(data)
    \/ ~IsDict(DictGet(data, "repository", EmptyObj))
    \/ ~IsDict(DictGet(data, "sender", EmptyObj))
    \/ ~IsDict(DictGet(data, "forkee", EmptyObj))

ForkMessage(data) ==
    LET repository == DictGet(data, "repository", EmptyObj)
        forkee     == DictGet(data, "forkee", EmptyObj)
        sender     == DictGet(data, "sender", EmptyObj)
        repo_name  == DictGet(repository, "full_name", Unknown)
        fork_count == DictGet(repository, "forks_count", JInt(0))
        user_name  == DictGet(sender, "login", Unknown)
        fork_url   == DictGet(forkee, "html_url", NoText)
    IN  <<"[fork] **New Fork!**\n\n">>
        \o <<"[package] Repository: ">> \o Format(repo_name) \o <<"\n">>
        \o <<"[bust] Forked by: ">> \o Format(user_name) \o <<"\n">>
        \o <<"[chart] Total forks: ">> \o Format(fork_count) \o <<"\n\n">>
        \o <<"[link] [View Fork](">> \o Format(fork_url) \o <<")">>

ProcessForkEvent(data) ==
    IF ForkRaises(data) THEN Caught("fork") ELSE Returned(ForkMessage(data))

\* ---- release -----------------------------------------------------------
ReleaseRaises(data) ==
    \/ ~IsDict(data)
    \/ /\ ActionIn(DictGet(data, "action", NoText), {<<"published">>})
       /\ LET release == DictGet(data, "release", EmptyObj)
          IN  \/ ~IsDict(DictGet(data, "repository", EmptyObj))
              \/ ~IsDict(release)
              \/ ~IsDict(DictGet(release, "author", EmptyObj))

ReleaseMessage(data) ==
    LET release      == DictGet(data, "release", EmptyObj)
        repository   == DictGet(data, "repository", EmptyObj)
        repo_name    == DictGet(repository, "full_name", Unknown)
        release_name == DictGet(release, "name", DictGet(release, "tag_name", Unknown))
        release_tag  == DictGet(release, "tag_name", Unknown)
        release_url  == DictGet(release, "html_url", NoText)
        author_name  == DictGet(DictGet(release, "author", EmptyObj), "login", Unknown)
    IN  <<"[rocket] **New Release!**\n\n">>
        \o <<"[package] Repository: ">> \o Format(repo_name) \o <<"\n">>
        \o <<"[label] Release: ">> \o Format(release_name) \o <<" (">> \o Format(release_tag) \o <<")\n">>
        \o <<"[bust] Author: ">> \o Format(author_name) \o <<"\n\n">>
        \o <<"[link] [View Release](">> \o Format(release_url) \o <<")">>

\* mutant: a release that was only created is announced too
ProcessReleaseEvent_WithCreated(data) ==
    IF ReleaseRaises(data) THEN Caught("release")
    ELSE IF ~ActionIn(DictGet(data, "action", NoText), {<<"published">>, <<"created">>})
         THEN Returned(<<>>)
    ELSE Returned(ReleaseMessage(data))

ProcessReleaseEvent(data) ==
    IF ReleaseRaises(data) THEN Caught("release")
    ELSE IF ~ActionIn(DictGet(data, "action", NoText), {<<"published">>}) THEN Returned(<<>>)
    ELSE Returned(ReleaseMessage(data))

(***************************************************************************)
(* _process_event: dispatch on the X-GitHub-Event header.  Its own          *)
(* try/except has nothing left to catch: every processor returns.          *)
(***************************************************************************)
\* mutant: an event type without a processor of its own is handled as a fork
ProcessEvent_DefaultFork(event_type, data) ==
    CASE event_type = <<"push">>         -> ProcessPushEvent(data)
      [] event_type = <<"pull_request">> -> ProcessPullRequestEvent(data)
      [] event_type = <<"issues">>       -> ProcessIssuesEvent(data)
      [] event_type = <<"star">>         -> ProcessStarEvent(data)
      [] event_type = <<"release">>      -> ProcessReleaseEvent(data)
      [] OTHER                           -> ProcessForkEvent(data)

ProcessEvent(event_type, data) ==
    CASE event_type = <<"push">>         -> ProcessPushEvent(data)
      [] event_type = <<"pull_request">> -> ProcessPullRequestEvent(data)
      [] event_type = <<"issues">>       -> ProcessIssuesEvent(data)
      [] event_type = <<"star">>         -> ProcessStarEvent(data)
      [] event_type = <<"fork">>         -> ProcessForkEvent(data)
      [] event_type = <<"release">>      -> ProcessReleaseEvent(data)
      [] OTHER -> [exc |-> "none", msg |-> <<>>, log |-> <<"INFO Unhandled event type">>]

(***************************************************************************)
(* The requests the environment sends: raw body, X-Hub-Signature-256 and   *)
(* X-GitHub-Event as read at lines 73-75 (an absent header reads as '').   *)
(***************************************************************************)
Secret      == <<"s3cret">>
OtherSecret == <<"0ther">>

Repo ==
    JObj([full_name |-> JStr(<<"a/b">>), html_url |-> JStr(<<"https://x">>),
          stargazers_count |-> JInt(5), forks_count |-> JInt(2)])
User == JObj([login |-> JStr(<<"u", "_", "1">>)])

\* ids are written one character per token: the code slices them
CommitId(i) == <<ToString(i), "b", "c", "d", "e", "f", "0", "1", "2">>
Commit(i) ==
    JObj([message |-> JStr(<<"fix ", "*", ToString(i)>>),
          author  |-> JObj([name |-> JStr(<<"bob">>)]),
          id      |-> JStr(CommitId(i))])

PushPayload(n, ref) ==
    JObj([repository |-> Repo, pusher |-> JObj([name |-> JStr(<<"alice">>)]),
          commits |-> JList([i \in 1..n |-> Commit(i)]), ref |-> JStr(ref)])
PullRequestPayload(action) ==
    JObj([action |-> JStr(action), repository |-> Repo,
          pull_request |-> JObj([title |-> JStr(<<"a", "*", "b">>), number |-> JInt(7),
                                 user |-> User, html_url |-> JStr(<<"https://pr">>)])])
IssuesPayload(action) ==
    JObj([action |-> JStr(action), repository |-> Repo,
          issue |-> JObj([title |-> JStr(<<"bug ", "[", "1", "]">>), number |-> JInt(3),
                          user |-> User, html_url |-> JStr(<<"https://is">>)])])
StarPayload(action) ==
    JObj([action |-> JStr(action), repository |-> Repo, sender |-> User])
ForkPayload ==
    JObj([repository |-> Repo, sender |-> User,
          forkee |-> JObj([html_url |-> JStr(<<"https://fk">>)])])
\* a fork payload that carries an 'action' field (the processor does not read it)
ForkPayloadWith(action) ==
    JObj([k \in DOMAIN ForkPayload.v \cup {"action"} |->
             IF k = "action" THEN action ELSE ForkPayload.v[k]])
ReleasePayload(action) ==
    JObj([action |-> JStr(action), repository |-> Repo,
          release |-> JObj([name |-> JStr(<<"one">>), tag_name |-> JStr(<<"v1">>),
                            author |-> User, html_url |-> JStr(<<"https://rl">>)])])

\* values of another JSON type than v
WrongTypes(v) == {w \in {JNull, JInt(7), JStr(<<"x">>)} : w.t # v.t}

Drop(o, k)   == JObj([x \in DOMAIN o.v \ {k} |-> o.v[x]])
Put(o, k, w) == JObj([o.v EXCEPT ![k] = w])

\* every JSON value that differs from v in one place: a key dropped, or a value
\* (at any depth) replaced by one of another type
RECURSIVE Malformed(_)
Malformed(v) ==
    WrongTypes(v) \cup
    CASE v.t = "obj" ->
            {Drop(v, k) : k \in DOMAIN v.v}
            \cup UNION {{Put(v, k, w) : w \in Malformed(v.v[k])} : k \in DOMAIN v.v}
      [] v.t = "list" ->
            UNION {{JList([v.v EXCEPT ![i] = w]) : w \in Malformed(v.v[i])}
                   : i \in 1..Len(v.v)}
      [] OTHER -> {}

EventTypes ==
    {<<"push">>, <<"pull_request">>, <<"issues">>, <<"star">>, <<"fork">>, <<"release">>}

\* the payloads sent with event type e: well-formed ones, and malformed variants of one
Payloads(e) ==
    CASE e = <<"push">> ->
            {PushPayload(n, <<RefPrefix, "main">>) : n \in 0..MaxCommits}
            \cup {PushPayload(1, r) : r \in {<<"main">>, <<RefPrefix, RefPrefix, "x">>,
                                             <<"refs/tags/", "v1">>}}
            \cup Malformed(PushPayload(1, <<RefPrefix, "main">>))
            \cup {PushPayload(0, <<"refs/tags/", "v1">>)}
            \cup Malformed(PushPayload(0, <<RefPrefix, "main">>))
      [] e = <<"pull_request">> ->
            {PullRequestPayload(a) : a \in PullRequestActions \cup {<<"labeled">>}}
            \cup Malformed(PullRequestPayload(<<"opened">>))
      [] e = <<"issues">> ->
            {IssuesPayload(a) : a \in IssueActions \cup {<<"labeled">>}}
            \cup Malformed(IssuesPayload(<<"opened">>))
      [] e = <<"star">> ->
            {StarPayload(a) : a \in {<<"created">>, <<"deleted">>}}
            \cup Malformed(StarPayload(<<"created">>))
      [] e = <<"fork">> ->
            {ForkPayload} \cup Malformed(ForkPayload)
            \cup {ForkPayloadWith(a) : a \in {JStr(<<"created">>), JStr(<<"deleted">>), JNull}}
      [] e = <<"release">> ->
            {ReleasePayload(a) : a \in {<<"published">>, <<"created">>}}
            \cup Malformed(ReleasePayload(<<"published">>))
      [] OTHER -> {}

Json(v) == [enc |-> "json", data |-> v]

\* bodies sent with every event type and every signature header
CoreBodies ==
    {[enc |-> "badutf8"], [enc |-> "badjson"], [enc |-> "deep"]}
    \cup {Json(v) : v \in {JList(<<>>), JNull, JStr(<<"x">>), EmptyObj,
                           StarPayload(<<"created">>), ForkPayload}}

\* signature headers sent with body b
CoreSignatures(b) ==
    {<<>>, <<SigPrefix, HexDigest(Secret, b)>>}
Signatures(b) ==
    CoreSignatures(b)
    \cup {<<HexDigest(Secret, b)>>,
          <<SigPrefix, HexDigest(OtherSecret, b)>>,
          <<SigPrefix, NonAscii>>,
          <<SigPrefix, SigPrefix, HexDigest(Secret, b)>>,
          <<HexDigest(Secret, b), SigPrefix>>}
    \cup {<<SigPrefix, HexDigest(Secret, c)>> : c \in CoreBodies}

Request(b, s, e) == [payload |-> b, signature |-> s, event_type |-> e]

Requests ==
    UNION {{Request(b, s, e) : s \in Signatures(b), e \in EventTypes \cup {<<"ping">>, <<>>}}
           : b \in CoreBodies}
    \cup UNION {UNION {{Request(Json(v), s, e) : s \in CoreSignatures(Json(v))}
                       : v \in Payloads(e)} : e \in EventTypes}

(***************************************************************************)
(* State of a request handler.                                             *)
(***************************************************************************)
NoReq  == Request([enc |-> "none"], <<>>, <<>>)
NoData == [t |-> "nodata"]
NoResp == [status |-> 0, key |-> "none", val |-> "none"]

\* jsonify({key: val}), status
Response(status, key, val) == [status |-> status, key |-> key, val |-> val]

Upd(f, t, x) == [f EXCEPT ![t] = x]

ServerThreads == {1}

\* no call of escape_markdown is in progress
NoEscape == [text |-> <<>>, out |-> <<>>, returned |-> FALSE]

\* run_server has not been called
NotStarted == [state |-> "constructed", log |-> <<>>]

\* TelegramBot.__init__ (line 32: self.running = False); run_polling not called
NotPolling ==
    [pc |-> "init", running |-> FALSE, stop |-> "none", arrived |-> <<>>,
     last_update_id |-> 0, offset |-> 0, updates |-> <<>>, completed |-> {},
     attempts |-> [i \in 1..MaxUpdates |-> 0], failed |-> 0]
\* (failed: the update whose handling raised in the last turn of the loop, 0 if
\* it was get_updates that raised)

\* handle_message has not been called
NoCommand == [text |-> "", invoked |-> <<>>, replies |-> <<>>, returned |-> FALSE]

\* the bot as constructed
BotInit == poll = NotPolling /\ cmd = NoCommand

\* the handler object after construction, served by the threads of pool
HandlerInit(pool) ==
    /\ server = NotStarted
    /\ config \in [webhook_secret : {<<>>, Secret}, bot_admin_id : {<<>>, <<"42">>}]
    /\ threads = pool
    /\ pc = [t \in threads |-> "idle"]
    /\ req = [t \in threads |-> NoReq]
    /\ sigok = [t \in threads |-> "pending"]
    /\ parsed = [t \in threads |-> NoData]
    /\ classified = [t \in threads |-> FALSE]
    /\ message = [t \in threads |-> <<>>]
    /\ sent = [t \in threads |-> <<>>]
    /\ resp = [t \in threads |-> NoResp]
    /\ log = [t \in threads |-> <<>>]

HookInit == HandlerInit(ServerThreads)

Init == HookInit /\ esc = NoEscape /\ BotInit

(***************************************************************************)
(* handle_webhook, one action per step of its body.                        *)
(***************************************************************************)
\* run_server, lines 350-362, started by main (src/main.py lines 35-39): logs
\* the address and serves requests, or app.run raises (the port is taken, ...),
\* which is logged and raised again
RunServer ==
    /\ server.state = "constructed"
    /\ \E started \in BOOLEAN :
          server' = IF started
                    THEN [state |-> "running", log |-> <<"INFO Starting webhook server">>]
                    ELSE [state |-> "failed",
                          log |-> <<"INFO Starting webhook server",
                                    "ERROR Error running webhook server">>]
    /\ UNCHANGED <<aside, config, threads, pc, req, sigok, parsed, classified, message, sent,
                   resp, log>>

\* lines 73-75: one of the requests of arrivals reaches a thread of the running
\* server that serves none
ReceiveFrom(t, arrivals) ==
    /\ server.state = "running"
    /\ pc[t] = "idle"
    /\ \E r \in arrivals : req' = Upd(req, t, r)
    /\ pc' = Upd(pc, t, "verify")
    /\ UNCHANGED <<aside, server, config, threads, sigok, parsed, classified, message, sent, resp, log>>

Receive(t) == ReceiveFrom(t, Requests)

\* mutant: no outer handler; the exception leaves handle_webhook without a response
InternalError_Propagates(t, logged) ==
    /\ log' = Upd(log, t, logged)
    /\ pc' = Upd(pc, t, "crashed")
    /\ UNCHANGED resp

\* the outer handler, lines 98-100
InternalError(t, logged) ==
    /\ resp' = Upd(resp, t, Response(500, "error", "Internal server error"))
    /\ log' = Upd(log, t, logged \o <<"ERROR Error processing webhook">>)
    /\ pc' = Upd(pc, t, "done")

\* mutant: the 403 branch logs the error but does not return
Verify_NoReturn(t) ==
    /\ pc[t] = "verify"
    /\ LET v == VerifySignature(config.webhook_secret, req[t].payload, req[t].signature)
           logged == log[t] \o VerifyLog(config.webhook_secret, req[t].signature)
       IN  IF v.exc # "none" THEN
                /\ sigok' = Upd(sigok, t, "raised")
                /\ InternalError(t, logged)
           ELSE
                /\ sigok' = Upd(sigok, t, IF v.val THEN "true" ELSE "false")
                /\ log' = Upd(log, t, logged \o (IF v.val THEN <<>>
                                                  ELSE <<"ERROR Invalid webhook signature">>))
                /\ pc' = Upd(pc, t, "parse")
                /\ UNCHANGED resp
    /\ UNCHANGED <<aside, server, config, threads, req, parsed, classified, message, sent>>

\* lines 77-80
Verify(t) ==
    /\ pc[t] = "verify"
    /\ LET v == VerifySignature(config.webhook_secret, req[t].payload, req[t].signature)
           logged == log[t] \o VerifyLog(config.webhook_secret, req[t].signature)
       IN  IF v.exc # "none" THEN
                /\ sigok' = Upd(sigok, t, "raised")
                /\ InternalError(t, logged)
           ELSE IF ~v.val THEN
                /\ sigok' = Upd(sigok, t, "false")
                /\ resp' = Upd(resp, t, Response(403, "error", "Invalid signature"))
                /\ log' = Upd(log, t, logged \o <<"ERROR Invalid webhook signature">>)
                /\ pc' = Upd(pc, t, "done")
           ELSE
                /\ sigok' = Upd(sigok, t, "true")
                /\ log' = Upd(log, t, logged)
                /\ pc' = Upd(pc, t, "parse")
                /\ UNCHANGED resp
    /\ UNCHANGED <<aside, server, config, threads, req, parsed, classified, message, sent>>

\* lines 82-87
Parse(t) ==
    /\ pc[t] = "parse"
    /\ LET p == ParsePayload(req[t].payload)
       IN  IF p.exc = "none" THEN
                /\ parsed' = Upd(parsed, t, p.val)
                /\ pc' = Upd(pc, t, "process")
                /\ UNCHANGED <<resp, log>>
           ELSE IF p.exc = "JSONDecodeError" THEN
                /\ resp' = Upd(resp, t, Response(400, "error", "Invalid JSON"))
                /\ log' = Upd(log, t, log[t] \o <<"ERROR Invalid JSON payload">>)
                /\ pc' = Upd(pc, t, "done")
                /\ UNCHANGED parsed
           ELSE
                /\ InternalError(t, log[t])
                /\ UNCHANGED parsed
    /\ UNCHANGED <<aside, server, config, threads, req, sigok, classified, message, sent>>

\* mutant: an error logged by the event processor is answered with a 500
Process_ErrorIs500(t) ==
    /\ pc[t] = "process"
    /\ LET r == ProcessEvent(req[t].event_type, parsed[t])
       IN  IF r.exc = "none" /\ \A i \in 1..Len(r.log) : r.log[i] = "INFO Unhandled event type" THEN
                /\ message' = Upd(message, t, r.msg)
                /\ log' = Upd(log, t, log[t] \o r.log)
                /\ pc' = Upd(pc, t, "notify")
                /\ UNCHANGED resp
           ELSE
                /\ InternalError(t, log[t] \o r.log)
                /\ UNCHANGED message
    /\ classified' = Upd(classified, t, TRUE)
    /\ UNCHANGED <<aside, server, config, threads, req, sigok, parsed, sent>>

\* mutant: the message is appended to what another request left in a buffer
\* kept on the handler object
Process_SharedBuffer(t) ==
    /\ pc[t] = "process"
    /\ LET r == ProcessEvent(req[t].event_type, parsed[t])
           others == threads \ {t}
           left == IF others = {} THEN <<>> ELSE message[CHOOSE u \in others : TRUE]
       IN  IF r.exc = "none" THEN
                /\ message' = Upd(message, t, left \o r.msg)
                /\ log' = Upd(log, t, log[t] \o r.log)
                /\ pc' = Upd(pc, t, "notify")
                /\ UNCHANGED resp
           ELSE
                /\ InternalError(t, log[t] \o r.log)
                /\ UNCHANGED message
    /\ classified' = Upd(classified, t, TRUE)
    /\ UNCHANGED <<aside, server, config, threads, req, sigok, parsed, sent>>

\* mutant: the message is kept on the handler object, which all threads share
Process_SharedMessage(t) ==
    /\ pc[t] = "process"
    /\ LET r == ProcessEvent(req[t].event_type, parsed[t])
       IN  IF r.exc = "none" THEN
                /\ message' = [u \in threads |-> r.msg]
                /\ log' = Upd(log, t, log[t] \o r.log)
                /\ pc' = Upd(pc, t, "notify")
                /\ UNCHANGED resp
           ELSE
                /\ InternalError(t, log[t] \o r.log)
                /\ UNCHANGED message
    /\ classified' = Upd(classified, t, TRUE)
    /\ UNCHANGED <<aside, server, config, threads, req, sigok, parsed, sent>>

\* line 90; an exception leaving _process_event would reach the outer handler
Process(t) ==
    /\ pc[t] = "process"
    /\ LET r == ProcessEvent(req[t].event_type, parsed[t])
       IN  IF r.exc = "none" THEN
                /\ message' = Upd(message, t, r.msg)
                /\ log' = Upd(log, t, log[t] \o r.log)
                /\ pc' = Upd(pc, t, "notify")
                /\ UNCHANGED resp
           ELSE
                /\ InternalError(t, log[t] \o r.log)
                /\ UNCHANGED message
    /\ classified' = Upd(classified, t, TRUE)
    /\ UNCHANGED <<aside, server, config, threads, req, sigok, parsed, sent>>

\* _send_notification(message), lines 324-344: logs the message; a failure
\* inside is caught and logged
SendNotification(t, msg) ==
    /\ sent' = Upd(sent, t, Append(sent[t], msg))
    /\ \E fails \in BOOLEAN :
          log' = Upd(log, t, Append(log[t], IF fails THEN "ERROR Error sending notification"
                                                      ELSE "INFO Webhook notification"))

\* mutant: the hand-off depends on the message alone
Notify_IgnoreAdmin(t) ==
    /\ pc[t] = "notify"
    /\ IF Len(message[t]) > 0
          THEN SendNotification(t, message[t])
          ELSE UNCHANGED <<sent, log>>
    /\ pc' = Upd(pc, t, "respond")
    /\ UNCHANGED <<aside, server, config, threads, req, sigok, parsed, classified, message, resp>>

\* lines 92-94
Notify(t) ==
    /\ pc[t] = "notify"
    /\ IF Len(message[t]) > 0 /\ Len(config.bot_admin_id) > 0
          THEN SendNotification(t, message[t])
          ELSE UNCHANGED <<sent, log>>
    /\ pc' = Upd(pc, t, "respond")
    /\ UNCHANGED <<aside, server, config, threads, req, sigok, parsed, classified, message, resp>>

\* mutant: a failed delivery is reported to the webhook sender
Respond_DeliveryStatus(t) ==
    /\ pc[t] = "respond"
    /\ resp' = Upd(resp, t,
                   IF \E i \in 1..Len(log[t]) : log[t][i] = "ERROR Error sending notification"
                       THEN Response(500, "error", "Internal server error")
                       ELSE Response(200, "status", "success"))
    /\ pc' = Upd(pc, t, "done")
    /\ UNCHANGED <<aside, server, config, threads, req, sigok, parsed, classified, message, sent, log>>

\* line 96
Respond(t) ==
    /\ pc[t] = "respond"
    /\ resp' = Upd(resp, t, Response(200, "status", "success"))
    /\ pc' = Upd(pc, t, "done")
    /\ UNCHANGED <<aside, server, config, threads, req, sigok, parsed, classified, message, sent, log>>

\* the response has been written; the request and its locals are discarded and
\* the thread serves the next request (app.run(threaded=True), lines 354-359)
Finish(t) ==
    /\ pc[t] = "done"
    /\ pc' = Upd(pc, t, "idle")
    /\ req' = Upd(req, t, NoReq)
    /\ sigok' = Upd(sigok, t, "pending")
    /\ parsed' = Upd(parsed, t, NoData)
    /\ classified' = Upd(classified, t, FALSE)
    /\ message' = Upd(message, t, <<>>)
    /\ sent' = Upd(sent, t, <<>>)
    /\ resp' = Upd(resp, t, NoResp)
    /\ log' = Upd(log, t, <<>>)
    /\ UNCHANGED <<aside, server, config, threads>>

Next ==
    \/ RunServer
    \/ \E t \in threads : Receive(t)
    \/ \E t \in threads : Verify(t)
    \/ \E t \in threads : Parse(t)
    \/ \E t \in threads : Process(t)
    \/ \E t \in threads : Notify(t)
    \/ \E t \in threads : Respond(t)
    \/ \E t \in threads : Finish(t)

Spec == Init /\ [][Next]_vars

\* a thread that entered handle_webhook runs its straight-line body to the return
Handle(t) == Verify(t) \/ Parse(t) \/ Process(t) \/ Notify(t) \/ Respond(t)
LiveSpec == Spec /\ \A t \in ServerThreads : WF_vars(Handle(t))

(***************************************************************************)
(* The server with two request threads (app.run(threaded=True)): the steps  *)
(* of two handlers interleave.  The requests are one of each outcome.       *)
(***************************************************************************)
PoolThreads == {1, 2}

Signed(b, e) == Request(b, <<SigPrefix, HexDigest(Secret, b)>>, e)
ConcRequests ==
    {Signed(Json(StarPayload(<<"created">>)), <<"star">>),
     Signed(Json(PullRequestPayload(<<"opened">>)), <<"pull_request">>),
     Signed(Json(PushPayload(2, <<RefPrefix, "main">>)), <<"push">>),
     Signed(Json(PullRequestPayload(<<"labeled">>)), <<"pull_request">>),
     Signed(Json(JList(<<>>)), <<"fork">>),
     Signed(Json(ForkPayload), <<"ping">>),
     Signed(Json(ForkPayload), <<"fork">>),
     Signed([enc |-> "badjson"], <<"push">>),
     Signed([enc |-> "badutf8"], <<"push">>),
     Request(Json(ForkPayload), <<>>, <<"fork">>),
     Request(Json(ForkPayload), <<SigPrefix, NonAscii>>, <<"fork">>)}

ConcInit == HandlerInit(PoolThreads) /\ esc = NoEscape /\ BotInit

ConcNext ==
    \/ RunServer
    \/ \E t \in threads : ReceiveFrom(t, ConcRequests)
    \/ \E t \in threads : Verify(t)
    \/ \E t \in threads : Parse(t)
    \/ \E t \in threads : Process(t)
    \/ \E t \in threads : Notify(t)
    \/ \E t \in threads : Respond(t)
    \/ \E t \in threads : Finish(t)

ConcSpec == ConcInit /\ [][ConcNext]_vars

\* handle_webhook run from its first line to its return with no other handler
\* running: the response, and the messages handed to _send_notification
HandleWebhook(cfg, r) ==
    LET v == VerifySignature(cfg.webhook_secret, r.payload, r.signature)
        p == ParsePayload(r.payload)
        e == ProcessEvent(r.event_type, p.val)
        failed == [resp |-> Response(500, "error", "Internal server error"), sent |-> <<>>]
    IN  IF v.exc # "none" THEN failed
        ELSE IF ~v.val THEN [resp |-> Response(403, "error", "Invalid signature"), sent |-> <<>>]
        ELSE IF p.exc = "JSONDecodeError"
             THEN [resp |-> Response(400, "error", "Invalid JSON"), sent |-> <<>>]
        ELSE IF p.exc # "none" THEN failed
        ELSE IF e.exc # "none" THEN failed
        ELSE [resp |-> Response(200, "status", "success"),
              sent |-> IF Len(e.msg) > 0 /\ Len(cfg.bot_admin_id) > 0 THEN <<e.msg>> ELSE <<>>]

(***************************************************************************)
(* escape_markdown called on a text: the texts are all the character         *)
(* sequences up to MaxTextLen over its class, the backslash and some other   *)
(* characters.                                                               *)
(***************************************************************************)
MaxTextLen == 2

EscAlphabet == EscapeChars \cup {"\\", "a", " "}
Texts == UNION {[1..n -> EscAlphabet] : n \in 0..MaxTextLen}

EscapeInit ==
    /\ HookInit
    /\ esc \in [text : Texts, out : {<<>>}, returned : {FALSE}]
    /\ BotInit

EscapeCall ==
    /\ ~esc.returned
    /\ esc' = [esc EXCEPT !.out = EscapeMarkdown(esc.text), !.returned = TRUE]
    /\ UNCHANGED <<hookvars, poll, cmd>>

EscapeNext == EscapeCall

EscapeSpec == EscapeInit /\ [][EscapeNext]_vars

(***************************************************************************)
(* TelegramBot.run_polling (src/telegram_bot.py lines 379-411) and stop.    *)
(* Updates reach Telegram one after the other with ids 1, 2, ...;           *)
(* get_updates(offset) returns, in order, those with an id of at least      *)
(* offset.  An update is one of                                            *)
(*   "ok"        its handling returns                                      *)
(*   "flaky"     its handling returns or raises                            *)
(*   "poison"    its handling raises every time                            *)
(*   "nomessage" update.message is None                                    *)
(* handle_message raises when the reply inside its own except clause       *)
(* raises (lines 372-377).                                                 *)
(***************************************************************************)
UpdateKinds == {"ok", "flaky", "poison", "nomessage"}

\* the updates get_updates(offset) returns: the ids from offset on that have arrived
Pending(offset) ==
    [i \in 1..(Len(poll.arrived) - offset + 1) |-> offset + i - 1]

Current == Head(poll.updates)      \* 'update' of the for loop

\* an update reaches Telegram
NewUpdate ==
    /\ Len(poll.arrived) < MaxUpdates
    /\ \E kind \in UpdateKinds : poll' = [poll EXCEPT !.arrived = Append(@, kind)]
    /\ UNCHANGED <<hookvars, esc, cmd>>

\* lines 381-383
StartPolling ==
    /\ poll.pc = "init"
    /\ poll' = [poll EXCEPT !.running = TRUE, !.last_update_id = 0, !.pc = "loop"]
    /\ UNCHANGED <<hookvars, esc, cmd>>

\* mutant: the loop does not read self.running
LoopTest_Forever ==
    /\ poll.pc = "loop"
    /\ poll' = [poll EXCEPT !.pc = "fetch", !.offset = poll.last_update_id + 1]
    /\ UNCHANGED <<hookvars, esc, cmd>>

\* line 386 'while self.running', then the call of get_updates (lines 388-391)
\* or, the flag being false, the exit through 'finally' (lines 410-411)
LoopTest ==
    /\ poll.pc = "loop"
    /\ IF poll.running
          THEN poll' = [poll EXCEPT !.pc = "fetch", !.offset = poll.last_update_id + 1]
          ELSE poll' = [poll EXCEPT !.pc = "exited", !.running = FALSE]
    /\ UNCHANGED <<hookvars, esc, cmd>>

\* get_updates returns
FetchReturn ==
    /\ poll.pc = "fetch"
    /\ poll' = [poll EXCEPT !.updates = Pending(poll.offset), !.pc = "batch"]
    /\ UNCHANGED <<hookvars, esc, cmd>>

\* get_updates raises (network error, ...): lines 401-403
FetchRaise ==
    /\ poll.pc = "fetch"
    /\ poll' = [poll EXCEPT !.failed = 0, !.pc = "sleep"]
    /\ UNCHANGED <<hookvars, esc, cmd>>

\* lines 393-395: the next update of the batch; handle_message is called for an
\* update with a message
BatchNext ==
    /\ poll.pc = "batch"
    /\ IF Len(poll.updates) = 0 THEN poll' = [poll EXCEPT !.pc = "loop"]
       ELSE IF poll.arrived[Current] = "nomessage" THEN poll' = [poll EXCEPT !.pc = "advance"]
       ELSE poll' = [poll EXCEPT !.pc = "handle",
                                 !.attempts[Current] = IF @ < MaxAttempts THEN @ + 1 ELSE @]
    /\ UNCHANGED <<hookvars, esc, cmd>>

\* handle_message returns
HandleReturn ==
    /\ poll.pc = "handle"
    /\ poll.arrived[Current] \in {"ok", "flaky"}
    /\ poll' = [poll EXCEPT !.completed = @ \cup {Current}, !.pc = "advance"]
    /\ UNCHANGED <<hookvars, esc, cmd>>

\* mutant: the id of the update is recorded before the update is handled
HandleRaise_Advanced ==
    /\ poll.pc = "handle"
    /\ poll.arrived[Current] \in {"flaky", "poison"}
    /\ poll' = [poll EXCEPT !.failed = Current, !.last_update_id = Current,
                            !.updates = <<>>, !.pc = "sleep"]
    /\ UNCHANGED <<hookvars, esc, cmd>>

\* handle_message raises: the rest of the batch is dropped, lines 401-403
HandleRaise ==
    /\ poll.pc = "handle"
    /\ poll.arrived[Current] \in {"flaky", "poison"}
    /\ poll' = [poll EXCEPT !.failed = Current, !.updates = <<>>, !.pc = "sleep"]
    /\ UNCHANGED <<hookvars, esc, cmd>>

\* mutant: the id is taken from the last update of the batch
Advance_ToEndOfBatch ==
    /\ poll.pc = "advance"
    /\ poll' = [poll EXCEPT !.last_update_id = poll.updates[Len(poll.updates)],
                            !.updates = Tail(@), !.pc = "batch"]
    /\ UNCHANGED <<hookvars, esc, cmd>>

\* line 398: last_update_id = update.update_id, and on to the next update
Advance ==
    /\ poll.pc = "advance"
    /\ poll' = [poll EXCEPT !.last_update_id = Current, !.updates = Tail(@), !.pc = "batch"]
    /\ UNCHANGED <<hookvars, esc, cmd>>

\* line 403: asyncio.sleep(1) is over
SleepDone ==
    /\ poll.pc = "sleep"
    /\ poll' = [poll EXCEPT !.pc = "loop"]
    /\ UNCHANGED <<hookvars, esc, cmd>>

\* the coroutine is cancelled or interrupted at one of its awaits
\* (CancelledError, KeyboardInterrupt: not an Exception); lines 405-411
Interrupt ==
    /\ poll.pc \in {"fetch", "handle", "sleep"}
    /\ poll' = [poll EXCEPT !.pc = "exited", !.running = FALSE, !.updates = <<>>]
    /\ UNCHANGED <<hookvars, esc, cmd>>

\* stop(), lines 421-424, called once from outside the loop: before
\* run_polling started, while it runs, or after it has exited
StopBot ==
    /\ poll.stop = "none"
    /\ poll' = [poll EXCEPT !.running = FALSE,
                            !.stop = CASE poll.pc = "init"   -> "early"
                                       [] poll.pc = "exited" -> "late"
                                       [] OTHER              -> "running"]
    /\ UNCHANGED <<hookvars, esc, cmd>>

\* the steps of the coroutine itself
PollStep ==
    \/ StartPolling
    \/ LoopTest
    \/ FetchReturn
    \/ FetchRaise
    \/ BatchNext
    \/ HandleReturn
    \/ HandleRaise
    \/ Advance
    \/ SleepDone

PollNext ==
    \/ NewUpdate
    \/ StartPolling
    \/ LoopTest
    \/ FetchReturn
    \/ FetchRaise
    \/ BatchNext
    \/ HandleReturn
    \/ HandleRaise
    \/ Advance
    \/ SleepDone
    \/ Interrupt
    \/ StopBot

PollInit == HookInit /\ esc = NoEscape /\ BotInit

PollSpec == PollInit /\ [][PollNext]_vars

\* the event loop runs the coroutine: every await of it comes back
PollLiveSpec == PollSpec /\ WF_vars(PollStep)

(***************************************************************************)
(* TelegramBot.handle_message (src/telegram_bot.py lines 345-377).  The     *)
(* text of a message is a str, or None for a message without text (a       *)
(* photo, a sticker).                                                      *)
(***************************************************************************)
\* text.startswith(prefix)
StartsWith(text, prefix) ==
    Len(prefix) <= Len(text) /\ SubSeq(text, 1, Len(prefix)) = prefix

\* what a call of handle_message does: the command handlers awaited, in order,
\* and the replies it sends itself
Invoke(handler) == [exc |-> "none", invoked |-> <<handler>>, reply |-> <<>>]

\* mutant: '/repo' is tested before '/repos'
HandleMessage_RepoFirst(message_text) ==
    IF ~IsStr(message_text)
        THEN [exc |-> "AttributeError", invoked |-> <<>>, reply |-> <<"error">>]
    ELSE IF StartsWith(message_text.v, "/start")   THEN Invoke("start_command")
    ELSE IF StartsWith(message_text.v, "/help")    THEN Invoke("help_command")
    ELSE IF StartsWith(message_text.v, "/profile") THEN Invoke("profile_command")
    ELSE IF StartsWith(message_text.v, "/repo")    THEN Invoke("repo_command")
    ELSE IF StartsWith(message_text.v, "/repos")   THEN Invoke("repos_command")
    ELSE IF StartsWith(message_text.v, "/commits") THEN Invoke("commits_command")
    ELSE IF StartsWith(message_text.v, "/issues")  THEN Invoke("issues_command")
    ELSE IF StartsWith(message_text.v, "/search")  THEN Invoke("search_command")
    ELSE [exc |-> "none", invoked |-> <<>>, reply |-> <<"unknown">>]

\* lines 347-377; None has no startswith: the AttributeError is caught at line
\* 372 and answered with the error reply
HandleMessage(message_text) ==
    IF ~IsStr(message_text)
        THEN [exc |-> "AttributeError", invoked |-> <<>>, reply |-> <<"error">>]
    ELSE IF StartsWith(message_text.v, "/start")   THEN Invoke("start_command")
    ELSE IF StartsWith(message_text.v, "/help")    THEN Invoke("help_command")
    ELSE IF StartsWith(message_text.v, "/profile") THEN Invoke("profile_command")
    ELSE IF StartsWith(message_text.v, "/repos")   THEN Invoke("repos_command")
    ELSE IF StartsWith(message_text.v, "/repo")    THEN Invoke("repo_command")
    ELSE IF StartsWith(message_text.v, "/commits") THEN Invoke("commits_command")
    ELSE IF StartsWith(message_text.v, "/issues")  THEN Invoke("issues_command")
    ELSE IF StartsWith(message_text.v, "/search")  THEN Invoke("search_command")
    ELSE [exc |-> "none", invoked |-> <<>>, reply |-> <<"unknown">>]

\* update.message.text of the messages sent to the bot
MessageTexts ==
    {JStr(s) : s \in {"/start", "/start now", "/startx", "/help", "/helpme", "/profile",
                      "/profile bob", "/repos", "/repos 2", "/reposx", "/repository",
                      "/repo", "/repo a/b", "/repox", "/commits a/b", "/commit",
                      "/issues a/b", "/issue", "/search q", "/searching", "/rep", "/",
                      "", "hello", " /start", "/Start", "repos", "/help /repo"}}
    \cup {JNull}

DispatchInit ==
    /\ HookInit /\ esc = NoEscape /\ poll = NotPolling
    /\ cmd \in [text : MessageTexts, invoked : {<<>>}, replies : {<<>>}, returned : {FALSE}]

\* one call of handle_message; the awaited handler (or the reply) returns or
\* raises, and what it raises is answered with the error reply (lines 372-377)
DispatchCall ==
    /\ ~cmd.returned
    /\ LET r == HandleMessage(cmd.text)
       IN  \E raises \in BOOLEAN :
              cmd' = [cmd EXCEPT !.invoked = r.invoked,
                                 !.replies = IF raises /\ r.exc = "none"
                                             THEN Append(r.reply, "error") ELSE r.reply,
                                 !.returned = TRUE]
    /\ UNCHANGED <<hookvars, esc, poll>>

DispatchNext == DispatchCall

DispatchSpec == DispatchInit /\ [][DispatchNext]_vars

(***************************************************************************)
(* Properties.                                                             *)
(***************************************************************************)
SecretSet   == Len(config.webhook_secret) > 0
Verified(t) == pc[t] \notin {"idle", "verify"}     \* _verify_signature has been called
Unparsed(t) == parsed[t].t = "nodata"

C2_SignatureRoundTrip ==
    \A t \in threads :
        (SecretSet /\ Verified(t)) =>
            \A b \in CoreBodies \cup {req[t].payload} :
                req[t].signature = <<SigPrefix, HexDigest(config.webhook_secret, b)>>
                    => (sigok[t] = "true" <=> b = req[t].payload)

C2_Witness ==
    \E t \in threads :
        /\ SecretSet /\ Verified(t) /\ sigok[t] = "true"
        /\ req[t].signature = <<SigPrefix, HexDigest(config.webhook_secret, req[t].payload)>>

\* the tampered half of C2 happens too: a digest of another body is rejected
C2_TamperedReached ==
    \E t \in threads :
        /\ SecretSet /\ Verified(t) /\ sigok[t] = "false"
        /\ \E b \in CoreBodies :
              /\ b # req[t].payload
              /\ req[t].signature = <<SigPrefix, HexDigest(config.webhook_secret, b)>>

\* C3: with no secret configured the signature check returns true for every body
\* and every header value, and the request goes on to JSON parsing: it is never
\* answered 403, and it ends without parsed data only when parsing itself failed.
C3_EmptySecretBypass ==
    \A t \in threads :
        (~SecretSet /\ Verified(t)) =>
            /\ sigok[t] = "true"
            /\ pc[t] \in {"parse", "process", "notify", "respond", "done"}
            /\ resp[t].status # 403
            /\ (pc[t] = "done" /\ Unparsed(t)) => ParsePayload(req[t].payload).exc # "none"

C3_Witness ==
    \E t \in threads :
        /\ ~SecretSet /\ pc[t] = "parse" /\ sigok[t] = "true"
        /\ req[t].signature = <<SigPrefix, HexDigest(OtherSecret, req[t].payload)>>

\* C4: with a secret configured and an absent or empty signature header the check
\* returns false for every body and the response is 403.
C4_MissingSignatureRejected ==
    \A t \in threads :
        (SecretSet /\ Verified(t) /\ Len(req[t].signature) = 0) =>
            /\ sigok[t] = "false"
            /\ pc[t] = "done"
            /\ resp[t] = Response(403, "error", "Invalid signature")

C4_Witness ==
    \E t \in threads :
        /\ SecretSet /\ Len(req[t].signature) = 0 /\ pc[t] = "done"
        /\ req[t].payload.enc = "json" /\ resp[t].status = 403

Success == Response(200, "status", "success")

\* C5 (as claimed): a verified request whose body fails to parse, because the
\* text is not JSON or because the bytes cannot be decoded, is answered 400, and
\* nothing is classified or notified.
C5_ParseFailureIs400 ==
    \A t \in threads :
        (pc[t] = "done" /\ sigok[t] = "true"
            /\ ParsePayload(req[t].payload).exc \in {"JSONDecodeError", "UnicodeDecodeError"})
        => (resp[t].status = 400 /\ ~classified[t] /\ sent[t] = <<>>)

\* C6 (as claimed): after classification the notifier has been handed the message
\* exactly once if the message is non-empty and not at all if it is empty,
\* whatever the configuration.
C6_HandoffIffMessage ==
    \A t \in threads :
        pc[t] \in {"respond", "done"} /\ classified[t] =>
            sent[t] = IF Len(message[t]) > 0 THEN <<message[t]>> ELSE <<>>

\* C6 (amended): for a verified, parsed request the notifier is handed the
\* formatted message exactly once if the message is non-empty and an administrator
\* id (bot_admin_id) is configured, and is not invoked at all otherwise; nothing
\* is handed over before the hand-off step.
C6_HandoffIffMessageAndAdmin ==
    \A t \in threads :
        /\ pc[t] \in {"respond", "done"} /\ classified[t] =>
              sent[t] = IF Len(message[t]) > 0 /\ Len(config.bot_admin_id) > 0
                           THEN <<message[t]>> ELSE <<>>
        /\ pc[t] \notin {"respond", "done"} => sent[t] = <<>>

C6_Witness ==
    \E t \in threads :
        /\ pc[t] = "done" /\ classified[t] /\ Len(message[t]) > 0
        /\ Len(config.bot_admin_id) > 0 /\ sent[t] = <<message[t]>>

\* C7: a verified request whose body parsed is answered 200 with the success
\* body, whether or not a notification was produced and whether or not the
\* hand-off failed; no other response is produced for it.
C7_ParsedRequestGets200 ==
    \A t \in threads :
        ~Unparsed(t) =>
            \/ pc[t] \in {"process", "notify", "respond"} /\ resp[t] = NoResp
            \/ pc[t] = "done" /\ resp[t] = Success

C7_Witness ==
    \E t \in threads :
        /\ pc[t] = "done" /\ resp[t] = Success /\ Len(sent[t]) = 1
        /\ \E i \in 1..Len(log[t]) : log[t][i] = "ERROR Error sending notification"

\* an error was raised, caught and logged while classifying/formatting
ProcessingErrors ==
    {"ERROR Error processing push event", "ERROR Error processing pull request event",
     "ERROR Error processing issues event", "ERROR Error processing star event",
     "ERROR Error processing fork event", "ERROR Error processing release event"}
ClassificationFailed(t) == \E i \in 1..Len(log[t]) : log[t][i] \in ProcessingErrors

\* C8: a failure while classifying or formatting a verified, parsed event leaves
\* the message empty, hands nothing to the notifier and is answered 200.
C8_ClassificationFailureIsNoOp ==
    \A t \in threads :
        ClassificationFailed(t) =>
            /\ classified[t] /\ message[t] = <<>> /\ sent[t] = <<>>
            /\ resp[t] \in {NoResp, Success}
            /\ pc[t] = "done" => resp[t] = Success

C8_Witness ==
    \E t \in threads :
        /\ ClassificationFailed(t) /\ pc[t] = "done" /\ resp[t] = Success
        /\ Len(config.bot_admin_id) > 0
        /\ req[t].event_type = <<"pull_request">>
        /\ req[t].payload = Json(Put(PullRequestPayload(<<"opened">>), "pull_request", JStr(<<"x">>)))

\* C9 (as claimed): an internal error while classifying or formatting a verified,
\* parsed event is answered 500.
C9_ClassificationErrorIs500 ==
    \A t \in threads :
        (pc[t] = "done" /\ ClassificationFailed(t)) => resp[t].status = 500

\* C9 (amended): an internal error while classifying or formatting is caught and
\* the request is answered 200; a 500 is returned only for an error raised before
\* classification: in the signature comparison or in decoding/parsing the body
\* with an error other than a JSON syntax error.
C9_InternalErrorOnlyBeforeClassification ==
    \A t \in threads :
        pc[t] = "done" =>
            /\ ClassificationFailed(t) => resp[t].status = 200
            /\ resp[t].status = 500 =>
                  /\ ~classified[t]
                  /\ \/ sigok[t] = "raised"
                     \/ /\ sigok[t] = "true"
                        /\ ParsePayload(req[t].payload).exc \in {"UnicodeDecodeError", "RecursionError"}

C9_Witness ==
    \E t \in threads :
        /\ pc[t] = "done" /\ ClassificationFailed(t) /\ resp[t].status = 200
        /\ req[t].event_type = <<"push">>

\* C10: every invocation of handle_webhook ends, with exactly one response, whose
\* status is 200, 400, 403 or 500: no response exists before the handler ends, and
\* an exception raised on the way is answered 500 instead of leaving the handler.
C10_OneResponseAlways ==
    /\ [](\A t \in ServerThreads :
            /\ pc[t] \in {"idle", "verify", "parse", "process", "notify", "respond", "done"}
            /\ pc[t] = "done" => resp[t].status \in {200, 400, 403, 500}
            /\ pc[t] # "done" => resp[t] = NoResp)
    /\ \A t \in ServerThreads : [](pc[t] = "verify" => <>(pc[t] = "done"))

C10_Witness ==
    \E t \in threads :
        /\ pc[t] = "done" /\ sigok[t] = "raised" /\ resp[t].status = 500
        /\ req[t].signature = <<SigPrefix, NonAscii>>


\* C11: a verified, parsed request whose X-GitHub-Event header is absent or names
\* none of push, pull_request, issues, star, fork, release is classified to the
\* empty message, nothing is handed to the notifier, and the response is 200.
C11_UnknownEventTypeIgnored ==
    \A t \in threads :
        (classified[t] /\ req[t].event_type \notin EventTypes) =>
            /\ message[t] = <<>> /\ sent[t] = <<>>
            /\ resp[t] \in {NoResp, Success}
            /\ pc[t] = "done" => resp[t] = Success

C11_Witness ==
    \E t \in threads :
        /\ pc[t] = "done" /\ classified[t] /\ resp[t] = Success
        /\ req[t].event_type = <<"ping">>
        /\ req[t].payload = Json(ForkPayload)
        /\ Len(config.bot_admin_id) > 0


\* positions of a token in a str, and the k-th of them
Positions(s, tok) == {i \in 1..Len(s) : s[i] = tok}
NthPosition(s, tok, k) ==
    CHOOSE i \in Positions(s, tok) : Cardinality({j \in Positions(s, tok) : j < i}) = k - 1
\* s has the tokens of part at positions from..
HasAt(s, from, part) ==
    /\ from + Len(part) - 1 <= Len(s)
    /\ \A i \in 1..Len(part) : s[from + i - 1] = part[i]

\* a push event was classified from a payload the processor reads without error,
\* with a list of at least one commit
PushFormatted(t) ==
    /\ classified[t] /\ req[t].event_type = <<"push">>
    /\ IsDict(parsed[t]) /\ ~PushRaises(parsed[t])
    /\ IsList(DictGet(parsed[t], "commits", JList(<<>>)))
    /\ Len(DictGet(parsed[t], "commits", JList(<<>>)).v) >= 1

\* C12: for a push payload with n >= 1 commits the message has exactly min(n, 3)
\* commit entries, the k-th entry showing the k-th commit of the payload, and
\* has the trailer "... and (n - 3) more commits" exactly when n > 3.
C12_PushCap ==
    \A t \in threads :
        PushFormatted(t) =>
            LET commits == parsed[t].v["commits"].v
                n       == Len(commits)
                m       == message[t]
            IN  /\ Cardinality(Positions(m, "[diamond] **")) = Min(n, 3)
                /\ \A k \in 1..Min(n, 3) :
                      HasAt(m, NthPosition(m, "[diamond] **", k) + 1,
                            Format(DictGet(commits[k], "message", JStr(<<"No message">>))))
                /\ Cardinality(Positions(m, "... and ")) = (IF n > 3 THEN 1 ELSE 0)
                /\ n > 3 => HasAt(m, NthPosition(m, "... and ", 1),
                                  <<"... and ", ToString(n - 3), " more commits\n\n">>)

C12_Witness ==
    \E t \in threads :
        /\ PushFormatted(t) /\ pc[t] = "done"
        /\ Len(parsed[t].v["commits"].v) = 5
        /\ Cardinality(Positions(message[t], "[diamond] **")) = 3
        /\ HasAt(message[t], NthPosition(message[t], "... and ", 1), <<"... and ", "2">>)


\* s contains the tokens of part somewhere
Contains(s, part) == \E i \in 1..(Len(s) + 1) : HasAt(s, i, part)

\* a pull_request event was classified from a payload the processor reads without error
PullRequestRead(t) ==
    /\ classified[t] /\ req[t].event_type = <<"pull_request">>
    /\ IsDict(parsed[t]) /\ ~PullRequestRaises(parsed[t])

\* C13: for a pull_request event with a structurally well-formed payload the
\* message is non-empty exactly when the action is opened, closed or merged;
\* any other (or missing) action gives the empty message; and for an allowed
\* action the message shows the PR number followed by the title.
C13_PullRequestActionFilter ==
    \A t \in threads :
        PullRequestRead(t) =>
            LET action  == DictGet(parsed[t], "action", NoText)
                allowed == /\ IsStr(action)
                           /\ action.v \in {<<"opened">>, <<"closed">>, <<"merged">>}
                pr      == DictGet(parsed[t], "pull_request", EmptyObj)
            IN  /\ Len(message[t]) > 0 <=> allowed
                /\ (allowed /\ {"number", "title"} \subseteq DOMAIN pr.v) =>
                      Contains(message[t], <<"[wrench] PR #">> \o Format(pr.v["number"])
                                           \o <<": ">> \o Format(pr.v["title"]))

C13_Witness ==
    \E t \in threads :
        /\ PullRequestRead(t) /\ pc[t] = "done"
        /\ parsed[t] = PullRequestPayload(<<"opened">>)
        /\ Contains(message[t], <<"[wrench] PR #", "7", ": ", "a", "*", "b">>)

\* the filtered half of C13 happens too: a "labeled" pull request gives no message
C13_LabeledReached ==
    \E t \in threads :
        /\ PullRequestRead(t) /\ pc[t] = "done" /\ message[t] = <<>>
        /\ parsed[t] = PullRequestPayload(<<"labeled">>)


\* the value of a payload field if it is present and a str, else no text at all
TextOf(obj, key) ==
    IF key \in DOMAIN obj.v /\ IsStr(obj.v[key]) THEN obj.v[key].v ELSE <<>>
HasText(obj, key) == key \in DOMAIN obj.v /\ IsStr(obj.v[key])

\* C14 (as claimed): in every notification message the free-text fields of the
\* payload (pull request title and author, commit messages) appear as
\* escape_markdown renders them.
C14_FreeTextEscaped ==
    \A t \in threads :
        (classified[t] /\ Len(message[t]) > 0) =>
            /\ req[t].event_type = <<"pull_request">> =>
                  LET pr   == DictGet(parsed[t], "pull_request", EmptyObj)
                      user == DictGet(pr, "user", EmptyObj)
                  IN  /\ HasText(pr, "title") =>
                            Contains(message[t], <<": ">> \o EscapeMarkdown(TextOf(pr, "title"))
                                                 \o <<"\n">>)
                      /\ HasText(user, "login") =>
                            Contains(message[t], <<"[bust] Author: ">>
                                                 \o EscapeMarkdown(TextOf(user, "login"))
                                                 \o <<"\n\n">>)
            /\ req[t].event_type = <<"push">> =>
                  LET commits == parsed[t].v["commits"].v
                  IN  \A k \in 1..Min(3, Len(commits)) :
                          HasText(commits[k], "message") =>
                              HasAt(message[t], NthPosition(message[t], "[diamond] **", k),
                                    <<"[diamond] **">>
                                    \o EscapeMarkdown(TextOf(commits[k], "message"))
                                    \o <<"**\n">>)


\* the class of characters as the claim lists it
MarkupClass ==
    {"_", "*", "[", "]", "(", ")", "~", "[tick]", ">", "#", "+", "-", "=", "|",
     "{", "}", ".", "!"}
\* how many characters of the class stand before position i of s
ClassBefore(s, i) == Cardinality({j \in 1..(i - 1) : s[j] \in MarkupClass})

\* C15: escape_markdown works character by character: a character of the class
\* becomes a backslash followed by the character, any other character is kept,
\* the order is kept and nothing else is added; the empty text gives the empty
\* text, and a text without a character of the class comes back unchanged.
C15_EscapeCharByChar ==
    esc.returned =>
        LET text == esc.text
            out  == esc.out
            at(i) == i + ClassBefore(text, i)
        IN  /\ Len(out) = Len(text) + ClassBefore(text, Len(text) + 1)
            /\ \A i \in 1..Len(text) :
                   IF text[i] \in MarkupClass
                   THEN out[at(i)] = "\\" /\ out[at(i) + 1] = text[i]
                   ELSE out[at(i)] = text[i]
            /\ (text = <<>>) => (out = <<>>)
            /\ (\A i \in 1..Len(text) : text[i] \notin MarkupClass) => (out = text)
C15_Witness ==
    /\ esc.returned
    /\ esc.text = <<"a", "*">>
    /\ esc.out = <<"a", "\\", "*">>
C15_IdentityReached ==
    esc.returned /\ esc.text = <<"\\", "a">> /\ esc.out = esc.text


\* C16: with two handler threads interleaved in every way, a request that got
\* its response has the response and the notifications it has when handled with
\* no other request in flight, a request still in flight has sent nothing but
\* what it sends when handled alone, and no step changes the handler's
\* configuration (secret, admin id).
C16_NoInterference ==
    /\ [](\A t \in threads :
             LET alone == HandleWebhook(config, req[t])
             IN  /\ pc[t] = "done" => (resp[t] = alone.resp /\ sent[t] = alone.sent)
                 /\ pc[t] \notin {"idle", "done"} =>
                        (resp[t] = NoResp /\ sent[t] \in {<<>>, alone.sent}))
    /\ [][config' = config /\ threads' = threads]_vars
C16_Witness ==
    /\ threads = PoolThreads
    /\ pc[1] = "done" /\ resp[1].status = 200 /\ Len(sent[1]) = 1
    /\ pc[2] = "done" /\ resp[2].status = 200 /\ Len(sent[2]) = 1
    /\ sent[1] # sent[2]
C16_OverlapReached ==
    /\ threads = PoolThreads
    /\ pc[1] = "notify" /\ pc[2] = "process"
    /\ req[1] # req[2]


\* C17: _process_event never raises: for every event type and every parsed JSON
\* value it is called with (objects, non-objects, fields missing or of the wrong
\* type) it returns a text, the empty one whenever an extraction error was
\* caught; so after classification the handler goes on to its normal return and
\* the outer error handler is not entered.
C17_ClassificationNeverRaises ==
    \A t \in threads :
        /\ pc[t] = "process" =>
              LET r == ProcessEvent(req[t].event_type, parsed[t])
              IN  /\ r.exc = "none"
                  /\ r.msg \in Seq(STRING)
                  /\ (\E i \in 1..Len(r.log) : r.log[i] \in ProcessingErrors) => r.msg = <<>>
        /\ classified[t] =>
              /\ pc[t] \in {"notify", "respond", "done"}
              /\ \A i \in 1..Len(log[t]) : log[t][i] # "ERROR Error processing webhook"
C17_Witness ==
    \E t \in threads :
        /\ classified[t] /\ pc[t] = "notify"
        /\ req[t].event_type = <<"push">> /\ parsed[t] = JList(<<>>)
        /\ ClassificationFailed(t) /\ message[t] = <<>>
C17_WrongSubfieldReached ==
    \E t \in threads :
        /\ classified[t] /\ pc[t] = "done" /\ resp[t] = Success
        /\ req[t].event_type = <<"push">>
        /\ parsed[t] = Put(PushPayload(1, <<RefPrefix, "main">>), "commits", JInt(7))


NoSecretWarning == "WARNING No webhook secret configured, skipping signature verification"

\* C19 (as claimed): with no secret configured the warning is logged when the
\* server starts, and again for every request accepted without verification.
C19_NoSecretWarned ==
    ~SecretSet =>
        /\ server.state # "constructed" =>
              \E i \in 1..Len(server.log) : server.log[i] = NoSecretWarning
        /\ \A t \in threads :
              sigok[t] = "true" => \E i \in 1..Len(log[t]) : log[t][i] = NoSecretWarning


\* the header without one leading "sha256=", if it starts with one
StripLeadingPrefix(s) == IF Len(s) > 0 /\ Head(s) = SigPrefix THEN Tail(s) ELSE s

\* C20 (as claimed): with a secret configured, the signature check accepts a
\* header exactly when the header without a single leading "sha256=" is the hex
\* HMAC-SHA256 of the body; "sha256=" repeated or elsewhere in the value does
\* not make a match.
C20_SingleLeadingPrefix ==
    \A t \in threads :
        (SecretSet /\ Verified(t)) =>
            (sigok[t] = "true"
             <=> StripLeadingPrefix(req[t].signature)
                     = <<HexDigest(config.webhook_secret, req[t].payload)>>)


\* ref without one leading "refs/heads/", if it starts with one
StripLeadingRef(ref) == IF Len(ref) > 0 /\ Head(ref) = RefPrefix THEN Tail(ref) ELSE ref

\* C21 (as claimed): the branch shown for a push is the ref with exactly its
\* leading "refs/heads/" removed and the rest unchanged, and the ref itself when
\* it does not start with "refs/heads/".
C21_BranchIsRefWithoutLeadingPrefix ==
    \A t \in threads :
        (classified[t] /\ req[t].event_type = <<"push">> /\ Len(message[t]) > 0) =>
            Contains(message[t],
                     <<"[herb] Branch: [tick]">>
                     \o StripLeadingRef(DictGet(parsed[t], "ref", NoText).v) \o <<"[tick]\n">>)


\* the field at path (keys from the outside in) is missing from obj: a key on the
\* way is absent
RECURSIVE Absent(_, _)
Absent(obj, path) ==
    IF ~IsDict(obj) THEN FALSE
    ELSE IF Head(path) \notin DOMAIN obj.v THEN TRUE
    ELSE IF Len(path) = 1 THEN FALSE
    ELSE Absent(obj.v[Head(path)], Tail(path))

Field(path, before, after, shown) ==
    [path |-> path, before |-> before, after |-> after, shown |-> shown]

\* the optional fields of each event type: where the message shows the field
\* (between which two pieces of fixed text) and what it shows when it is missing
RepositoryName == Field(<<"repository", "full_name">>, "[package] Repository: ", "\n", <<"Unknown">>)
OptionalFields(event_type) ==
    CASE event_type = <<"push">> ->
            {Field(<<"repository", "full_name">>, " to ", "**\n\n", <<"Unknown">>),
             Field(<<"pusher", "name">>, "[bust] Pusher: ", "\n", <<"Unknown">>),
             Field(<<"ref">>, "[herb] Branch: [tick]", "[tick]\n", <<>>),
             Field(<<"repository", "html_url">>, "[link] [View Repository](", ")", <<>>)}
      [] event_type = <<"pull_request">> ->
            {RepositoryName,
             Field(<<"pull_request", "number">>, "[wrench] PR #", ": ", <<"0">>),
             Field(<<"pull_request", "title">>, ": ", "\n", <<"No title">>),
             Field(<<"pull_request", "user", "login">>, "[bust] Author: ", "\n\n", <<"Unknown">>),
             Field(<<"pull_request", "html_url">>, "[link] [View Pull Request](", ")", <<>>)}
      [] event_type = <<"issues">> ->
            {RepositoryName,
             Field(<<"issue", "number">>, "[bug] Issue #", ": ", <<"0">>),
             Field(<<"issue", "title">>, ": ", "\n", <<"No title">>),
             Field(<<"issue", "user", "login">>, "[bust] Author: ", "\n\n", <<"Unknown">>),
             Field(<<"issue", "html_url">>, "[link] [View Issue](", ")", <<>>)}
      [] event_type = <<"star">> ->
            {RepositoryName,
             Field(<<"sender", "login">>, "[bust] Starred by: ", "\n", <<"Unknown">>),
             Field(<<"repository", "stargazers_count">>, "[chart] Total stars: ", "\n\n", <<"0">>),
             Field(<<"repository", "html_url">>, "[link] [View Repository](", ")", <<>>)}
      [] event_type = <<"fork">> ->
            {RepositoryName,
             Field(<<"sender", "login">>, "[bust] Forked by: ", "\n", <<"Unknown">>),
             Field(<<"repository", "forks_count">>, "[chart] Total forks: ", "\n\n", <<"0">>),
             Field(<<"forkee", "html_url">>, "[link] [View Fork](", ")", <<>>)}
      [] event_type = <<"release">> ->
            {RepositoryName,
             Field(<<"release", "tag_name">>, " (", ")\n", <<"Unknown">>),
             Field(<<"release", "author", "login">>, "[bust] Author: ", "\n\n", <<"Unknown">>),
             Field(<<"release", "html_url">>, "[link] [View Release](", ")", <<>>)}
      [] OTHER -> {}
\* the optional fields of one commit of a push
CommitFields ==
    {Field(<<"message">>, "[diamond] **", "**\n", <<"No message">>),
     Field(<<"author", "name">>, "[bust] ", " [bullet] [tick]", <<"Unknown">>),
     Field(<<"id">>, " [bullet] [tick]", "[tick]\n\n", <<>>)}

\* a message was built for the request of thread t
MessageBuilt(t) == classified[t] /\ Len(message[t]) > 0
ShownCommits(t) ==
    IF req[t].event_type = <<"push">>
    THEN LET commits == parsed[t].v["commits"].v
         IN  {commits[k] : k \in 1..Min(3, Len(commits))}
    ELSE {}

\* C22 (as claimed): every optional field that is missing from the payload is
\* shown as "Unknown", for every event type and field.
C22_MissingIsUnknown ==
    \A t \in threads :
        MessageBuilt(t) =>
            /\ \A f \in OptionalFields(req[t].event_type) :
                  Absent(parsed[t], f.path) =>
                      Contains(message[t], <<f.before, "Unknown", f.after>>)
            /\ \A c \in ShownCommits(t) : \A f \in CommitFields :
                  Absent(c, f.path) => Contains(message[t], <<f.before, "Unknown", f.after>>)

\* C22 (amended): every optional field that is missing is shown by the default of
\* its own lookup and never as None: names, logins and the release tag as
\* "Unknown", a title as "No title", a commit message as "No message", a number
\* or count as 0, a URL, the ref and the commit id as the empty text, and the
\* release name as the release tag (as "Unknown" when the tag is missing too).
C22_MissingIsItsDefault ==
    \A t \in threads :
        MessageBuilt(t) =>
            /\ \A f \in OptionalFields(req[t].event_type) :
                  Absent(parsed[t], f.path) =>
                      Contains(message[t], <<f.before>> \o f.shown \o <<f.after>>)
            /\ \A c \in ShownCommits(t) : \A f \in CommitFields :
                  Absent(c, f.path) =>
                      Contains(message[t], <<f.before>> \o f.shown \o <<f.after>>)
            /\ (req[t].event_type = <<"release">> /\ Absent(parsed[t], <<"release", "name">>)) =>
                  LET release == DictGet(parsed[t], "release", EmptyObj)
                  IN  Contains(message[t],
                               <<"[label] Release: ">>
                               \o (IF HasText(release, "tag_name")
                                   THEN TextOf(release, "tag_name") ELSE <<"Unknown">>)
                               \o <<" (">>)
            /\ \A f \in OptionalFields(req[t].event_type) :
                  Absent(parsed[t], f.path) => ~Contains(message[t], <<f.before, "None", f.after>>)
            /\ \A c \in ShownCommits(t) : \A f \in CommitFields :
                  Absent(c, f.path) => ~Contains(message[t], <<f.before, "None", f.after>>)
C22_Witness ==
    \E t \in threads :
        /\ MessageBuilt(t) /\ req[t].event_type = <<"pull_request">>
        /\ Absent(parsed[t], <<"pull_request", "title">>)
        /\ ~Absent(parsed[t], <<"pull_request", "number">>)
        /\ Contains(message[t], <<"[wrench] PR #", "7", ": ", "No title", "\n">>)
C22_UnknownReached ==
    \E t \in threads :
        /\ MessageBuilt(t) /\ req[t].event_type = <<"release">>
        /\ Absent(parsed[t], <<"release", "author", "login">>)
        /\ Contains(message[t], <<"[bust] Author: ", "Unknown", "\n\n">>)


\* a push whose payload is an object with no commit list, or an empty one
NoCommits(t) ==
    /\ req[t].event_type = <<"push">> /\ IsDict(parsed[t])
    /\ DictGet(parsed[t], "commits", JList(<<>>)) = JList(<<>>)

\* C23: a push without commits (the list empty or missing) gives the empty
\* message whatever its ref, repository and pusher are; nothing is handed to
\* the notifier and the response is 200.
C23_EmptyPushIgnored ==
    \A t \in threads :
        (classified[t] /\ NoCommits(t)) =>
            /\ message[t] = <<>> /\ sent[t] = <<>>
            /\ resp[t] \in {NoResp, Success}
            /\ pc[t] = "done" => resp[t] = Success
C23_Witness ==
    \E t \in threads :
        /\ classified[t] /\ NoCommits(t) /\ pc[t] = "done" /\ resp[t] = Success
        /\ Len(config.bot_admin_id) > 0
        /\ parsed[t] = PushPayload(0, <<"refs/tags/", "v1">>)
C23_MissingListReached ==
    \E t \in threads :
        /\ classified[t] /\ NoCommits(t) /\ pc[t] = "done" /\ resp[t] = Success
        /\ "commits" \notin DOMAIN parsed[t].v
        /\ ~ClassificationFailed(t)
C23_BadPusherReached ==
    \E t \in threads :
        /\ classified[t] /\ NoCommits(t) /\ pc[t] = "done" /\ resp[t] = Success
        /\ parsed[t] = Put(PushPayload(0, <<RefPrefix, "main">>), "pusher", JNull)
        /\ ClassificationFailed(t)


\* obj is an object, and so is every value found on the way along path
RECURSIVE DictAt(_, _)
DictAt(obj, path) ==
    /\ IsDict(obj)
    /\ \/ Len(path) = 0
       \/ Head(path) \notin DOMAIN obj.v
       \/ DictAt(obj.v[Head(path)], Tail(path))
\* the payload of thread t has objects wherever the processors expect one
WellFormed(t) ==
    \A path \in {<<"repository">>, <<"sender">>, <<"forkee">>, <<"issue", "user">>,
                 <<"release", "author">>} : DictAt(parsed[t], path)
\* the action field is a text and one of the given words
ActionAmong(t, words) ==
    LET action == DictGet(parsed[t], "action", NoText)
    IN  IsStr(action) /\ action.v \in words

\* C24: for a structurally well-formed payload, an issues event gives a message
\* exactly for the actions opened, closed, reopened; a star event exactly for
\* created; a release event exactly for published; a fork event always,
\* whatever its action field holds, also when it has none.
C24_ActionFilters ==
    \A t \in threads :
        (classified[t] /\ WellFormed(t)) =>
            LET built == Len(message[t]) > 0
                e == req[t].event_type
            IN  /\ e = <<"issues">> =>
                      (built <=> ActionAmong(t, {<<"opened">>, <<"closed">>, <<"reopened">>}))
                /\ e = <<"star">> => (built <=> ActionAmong(t, {<<"created">>}))
                /\ e = <<"release">> => (built <=> ActionAmong(t, {<<"published">>}))
                /\ e = <<"fork">> => built
C24_Witness ==
    \E t \in threads :
        /\ classified[t] /\ WellFormed(t) /\ req[t].event_type = <<"fork">>
        /\ parsed[t] = ForkPayloadWith(JStr(<<"deleted">>))
        /\ Contains(message[t], <<"[fork] **New Fork!**\n\n">>)
C24_FilteredReached ==
    \E t \in threads :
        /\ classified[t] /\ WellFormed(t) /\ req[t].event_type = <<"release">>
        /\ parsed[t] = ReleasePayload(<<"created">>)
        /\ message[t] = <<>> /\ ~ClassificationFailed(t) /\ pc[t] = "done"
C24_ReopenedReached ==
    \E t \in threads :
        /\ classified[t] /\ req[t].event_type = <<"issues">>
        /\ parsed[t] = IssuesPayload(<<"reopened">>)
        /\ Contains(message[t], <<"[yellow] ", "**Issue ", "Reopened">>)


\* the request of thread t is about to be handed to _send_notification
HandoffDue(t) ==
    pc[t] = "notify" /\ Len(message[t]) > 0 /\ Len(config.bot_admin_id) > 0

\* C25 (as claimed): the response does not wait for the handoff to the notifier:
\* when a handoff is due, the response has been produced already or can be
\* produced without the handoff having finished.
C25_ResponseDoesNotWait ==
    \A t \in threads :
        HandoffDue(t) => (resp[t] # NoResp \/ ENABLED Respond(t))


\* C26: with no administrator id configured no request reaches
\* _send_notification, whatever its event type and payload (nothing is sent and
\* the handoff logs nothing), and every verified request whose body parsed as
\* JSON is still answered 200.
C26_NoAdminNoHandoff ==
    Len(config.bot_admin_id) = 0 =>
        \A t \in threads :
            /\ sent[t] = <<>>
            /\ \A i \in 1..Len(log[t]) :
                  log[t][i] \notin {"INFO Webhook notification", "ERROR Error sending notification"}
            /\ (pc[t] = "done" /\ sigok[t] = "true" /\ ~Unparsed(t)) => resp[t] = Success
C26_Witness ==
    \E t \in threads :
        /\ Len(config.bot_admin_id) = 0 /\ SecretSet
        /\ pc[t] = "done" /\ sigok[t] = "true" /\ resp[t] = Success
        /\ req[t].event_type = <<"star">> /\ Len(message[t]) > 0 /\ sent[t] = <<>>


\* the update has a message, so the loop passes it to handle_message
HasMessage(id) == poll.arrived[id] # "nomessage"

\* C27: in the polling loop last_update_id moves past an update only after the
\* handling of that update has returned (or the update has no message), the
\* offset asked for is always last_update_id + 1, an update whose handling has
\* returned is not passed to handle_message again, and last_update_id never
\* decreases.
C27_OffsetAfterHandling ==
    /\ [](/\ poll.pc = "fetch" => poll.offset = poll.last_update_id + 1
          /\ \A id \in 1..poll.last_update_id : HasMessage(id) => id \in poll.completed
          /\ poll.pc = "handle" => Current \notin poll.completed
          /\ poll.pc \in {"handle", "advance"} => Current > poll.last_update_id)
    /\ [][/\ poll'.last_update_id >= poll.last_update_id
          /\ poll'.last_update_id # poll.last_update_id =>
                /\ poll.pc = "advance" /\ poll'.last_update_id = Current
                /\ HasMessage(Current) => Current \in poll.completed]_vars
C27_Witness ==
    /\ poll.pc = "fetch" /\ poll.offset = 3 /\ poll.last_update_id = 2
    /\ poll.completed = {1, 2}
    /\ poll.attempts[1] = 2 /\ poll.attempts[2] = 1


Arrived(id) == id <= Len(poll.arrived)

\* C28 (as claimed): whatever fails, every update with a message is handled at
\* least once: as long as polls keep succeeding, an update that has arrived is
\* passed to handle_message.
C28_EveryUpdateHandled ==
    \A id \in 1..MaxUpdates :
        ([]<>(poll.pc = "batch"))
            => [](Arrived(id) /\ HasMessage(id) => <>(poll.attempts[id] > 0))

\* C28 (amended): an exception raised by get_updates or by the handling of an
\* update does not end the loop: the flag stays set and, unless the bot is
\* stopped or interrupted, the loop polls again; last_update_id stays below the
\* failing update, so the next poll that succeeds returns that update and all
\* later ones again and the failing update is handled again.  No update is
\* skipped, an update that fails every time is retried again and again, and
\* while it does the updates after it are not handled.
C28_FailureRetriedInPlace ==
    /\ [](/\ poll.pc = "sleep" => (poll.running <=> poll.stop # "running")
          /\ (poll.pc = "sleep" /\ poll.failed > 0) => poll.failed > poll.last_update_id
          /\ \A id \in 1..Len(poll.arrived) :
                /\ (HasMessage(id) /\ poll.attempts[id] = 0) => poll.last_update_id < id
                /\ poll.arrived[id] = "poison" =>
                      /\ poll.last_update_id < id
                      /\ \A later \in (id + 1)..Len(poll.arrived) : poll.attempts[later] = 0)
    /\ [][(poll.pc = "fetch" /\ poll'.pc = "batch") =>
              \A id \in (poll.last_update_id + 1)..Len(poll.arrived) :
                  \E i \in 1..Len(poll'.updates) : poll'.updates[i] = id]_vars
    /\ [](poll.pc = "sleep" => <>(poll.pc \in {"fetch", "exited"}))
    /\ \A id \in 1..MaxUpdates :
          []((poll.pc = "sleep" /\ poll.failed = id)
                => <>(\/ poll.pc = "handle" /\ Current = id
                      \/ poll.pc = "sleep" /\ poll.failed = 0
                      \/ poll.pc = "exited"))
C28_Witness ==
    /\ poll.pc = "handle" /\ Current = 1 /\ poll.failed = 1
    /\ poll.arrived = <<"poison", "ok">>
    /\ poll.attempts[1] = MaxAttempts /\ poll.attempts[2] = 0
    /\ poll.running /\ poll.last_update_id = 0
C28_FetchFailureReached ==
    /\ poll.pc = "sleep" /\ poll.failed = 0 /\ poll.running
    /\ poll.last_update_id = 1 /\ Len(poll.arrived) = 2


\* C29: once stop() has been called on a running bot the loop ends (after the
\* get_updates call in progress and the batch at hand), the flag stays false, no
\* poll is started once the loop has read the flag as false, and the flag is
\* false whenever run_polling has exited, whichever way it exited.
C29_StopEndsLoop ==
    /\ [](poll.stop = "running" => <>(poll.pc = "exited"))
    /\ [](/\ poll.stop = "running" => ~poll.running
          /\ poll.pc = "exited" => ~poll.running)
    /\ [][(poll.pc = "loop" /\ ~poll.running) => poll'.pc \in {"loop", "exited"}]_vars
    /\ [][poll.pc = "exited" => poll'.pc = "exited"]_vars
C29_Witness ==
    /\ poll.stop = "running" /\ poll.pc = "exited" /\ ~poll.running
    /\ poll.completed = {1, 2} /\ poll.last_update_id = 2
C29_StoppedInBatchReached ==
    /\ poll.stop = "running" /\ poll.pc = "handle" /\ poll.updates = <<1, 2>>


\* the commands in the order the claim gives, and the handler of each
CommandOrder ==
    <<"/start", "/help", "/profile", "/repos", "/repo", "/commits", "/issues", "/search">>
HandlerOf ==
    <<"start_command", "help_command", "profile_command", "repos_command", "repo_command",
      "commits_command", "issues_command", "search_command">>
\* the places in CommandOrder of the prefixes the text starts with
Matches(text) == {i \in 1..Len(CommandOrder) : StartsWith(text, CommandOrder[i])}
First(S) == CHOOSE i \in S : \A j \in S : i <= j
SentUnknown == \E i \in 1..Len(cmd.replies) : cmd.replies[i] = "unknown"

\* C30 (as claimed): every message gets exactly one command handler, the one of
\* the first prefix in the order that its text starts with, or else the
\* unknown-command reply; a text starting with "/repos" gets the handler of the
\* repository list.
C30_OneHandlerPerMessage ==
    cmd.returned =>
        /\ Len(cmd.invoked) = 1 \/ (cmd.invoked = <<>> /\ SentUnknown)
        /\ IsStr(cmd.text) =>
              /\ Matches(cmd.text.v) # {} => cmd.invoked = <<HandlerOf[First(Matches(cmd.text.v))]>>
              /\ StartsWith(cmd.text.v, "/repos") => cmd.invoked = <<"repos_command">>

\* C30 (amended): every message that has a text gets exactly one command
\* handler, the one of the first prefix in the order that the text starts with,
\* or else, and only then, the unknown-command reply; a text starting with
\* "/repos" gets the handler of the repository list and not the one of a single
\* repository.  A message without text gets no handler and no unknown-command
\* reply: it is answered with the error reply.
C30_OneHandlerPerTextMessage ==
    cmd.returned =>
        IF IsStr(cmd.text)
        THEN /\ Matches(cmd.text.v) # {} =>
                   /\ cmd.invoked = <<HandlerOf[First(Matches(cmd.text.v))]>>
                   /\ ~SentUnknown
             /\ Matches(cmd.text.v) = {} => (cmd.invoked = <<>> /\ SentUnknown)
             /\ StartsWith(cmd.text.v, "/repos") =>
                   (cmd.invoked = <<"repos_command">> /\ cmd.invoked # <<"repo_command">>)
        ELSE cmd.invoked = <<>> /\ cmd.replies = <<"error">>
C30_Witness ==
    /\ cmd.returned /\ cmd.text = JStr("/repos 2") /\ cmd.invoked = <<"repos_command">>
C30_NoTextReached ==
    /\ cmd.returned /\ cmd.text = JNull /\ cmd.invoked = <<>> /\ cmd.replies = <<"error">>
C30_SingleRepoReached ==
    /\ cmd.returned /\ cmd.text = JStr("/repo a/b") /\ cmd.invoked = <<"repo_command">>

====
